---------------------------- MODULE Spec2Model ----------------------------
(***************************************************************************)
(* p2pIM: the version-0 message format (src/messages.py) and the server    *)
(* that verifies, stores and evicts messages (src/server1.py).             *)
(*                                                                         *)
(* Strings are sequences of code points, byte strings are sequences of     *)
(* byte values.  An attribute that can be None is None (the empty tuple)   *)
(* or Some(x) (a one-element tuple).                                       *)
(***************************************************************************)
EXTENDS Integers, Sequences, FiniteSets, TLC

None == << >>
Some(x) == << x >>
Get(o) == o[1]

Max(a, b) == IF a >= b THEN a ELSE b
\* n times the character c
Rep(c, n) == [i \in 1..n |-> c]

Min(a, b) == IF a <= b THEN a ELSE b

(***************************************************************************)
(* Class constants of Message_v0.                                          *)
(***************************************************************************)
format_bytes == 16
version_bytes == 1
timestamp_bytes == 14
nonce_bytes == 10
checksum_bytes == 12
\* 8 in the source (a 32-bit proof of work).  The model keeps the formulas
\* of the source and shortens the hash prefix so that every proof of work
\* fits the integers of the model checker.
pow_bytes == 2
pow_target == 2^((8 * pow_bytes) \div 2) - 1
overhead_bytes ==
    format_bytes + timestamp_bytes + nonce_bytes + version_bytes + checksum_bytes
min_message_bytes == 8 + overhead_bytes
max_payload_bytes == 128
max_message_bytes == max_payload_bytes + overhead_bytes
\* timedelta(seconds = 10), in seconds
min_message_age == 10

\* 2**(4*pow_bytes) - 1: the largest proof of work, the initial required_pow
PowLimit == 2^(4 * pow_bytes) - 1

(***************************************************************************)
(* str.encode('utf-8') and bytes.decode('utf-8') (strict).                 *)
(***************************************************************************)
EncodeChar(cp) ==
    IF cp < 128 THEN << cp >>
    ELSE IF cp < 2048 THEN << 192 + (cp \div 64), 128 + (cp % 64) >>
    ELSE IF cp < 65536
         THEN << 224 + (cp \div 4096), 128 + ((cp \div 64) % 64), 128 + (cp % 64) >>
    ELSE << 240 + (cp \div 262144), 128 + ((cp \div 4096) % 64),
            128 + ((cp \div 64) % 64), 128 + (cp % 64) >>

RECURSIVE EncodeRange(_, _, _)
\* the encoding of s[lo..hi]
EncodeRange(s, lo, hi) ==
    IF lo > hi THEN << >>
    ELSE IF lo = hi THEN EncodeChar(s[lo])
    ELSE LET mid == (lo + hi) \div 2
         IN  EncodeRange(s, lo, mid) \o EncodeRange(s, mid + 1, hi)

Utf8Encode(s) == EncodeRange(s, 1, Len(s))

IsCont(b, i) == i <= Len(b) /\ b[i] >= 128 /\ b[i] <= 191

\* the number of bytes of the well-formed sequence that starts at b[i];
\* 0 when none starts there (UnicodeDecodeError)
SeqLen(b, i) ==
    LET c == b[i]
        second(lo, hi) == i + 1 <= Len(b) /\ b[i + 1] >= lo /\ b[i + 1] <= hi
    IN  IF c < 128 THEN 1
        ELSE IF c >= 194 /\ c <= 223 THEN (IF IsCont(b, i + 1) THEN 2 ELSE 0)
        ELSE IF c >= 224 /\ c <= 239
             THEN IF /\ second(IF c = 224 THEN 160 ELSE 128,
                               IF c = 237 THEN 159 ELSE 191)
                     /\ IsCont(b, i + 2)
                  THEN 3 ELSE 0
        ELSE IF c >= 240 /\ c <= 244
             THEN IF /\ second(IF c = 240 THEN 144 ELSE 128,
                               IF c = 244 THEN 143 ELSE 191)
                     /\ IsCont(b, i + 2) /\ IsCont(b, i + 3)
                  THEN 4 ELSE 0
        ELSE 0

DecodeChar(b, i, n) ==
    IF n = 1 THEN b[i]
    ELSE IF n = 2 THEN (b[i] - 192) * 64 + (b[i + 1] - 128)
    ELSE IF n = 3
         THEN (b[i] - 224) * 4096 + (b[i + 1] - 128) * 64 + (b[i + 2] - 128)
    ELSE (b[i] - 240) * 262144 + (b[i + 1] - 128) * 4096
         + (b[i + 2] - 128) * 64 + (b[i + 3] - 128)

\* b[i] is no continuation byte: a sequence has to start there
IsLead(b, i) == b[i] < 128 \/ b[i] > 191

\* every byte belongs to exactly one well-formed sequence
WellFormed(b) ==
    /\ Len(b) > 0 => IsLead(b, 1)
    /\ \A i \in 1..Len(b) :
          IsLead(b, i) =>
              /\ SeqLen(b, i) > 0
              /\ i + SeqLen(b, i) <= Len(b) => IsLead(b, i + SeqLen(b, i))

RECURSIVE DecodeRange(_, _, _)
\* the characters of the sequences that start in b[lo..hi]
DecodeRange(b, lo, hi) ==
    IF lo > hi THEN << >>
    ELSE IF lo = hi
         THEN IF IsLead(b, lo) THEN << DecodeChar(b, lo, SeqLen(b, lo)) >>
              ELSE << >>
    ELSE LET mid == (lo + hi) \div 2
         IN  DecodeRange(b, lo, mid) \o DecodeRange(b, mid + 1, hi)

\* [ok |-> FALSE] stands for the UnicodeDecodeError
Utf8Decode(b) ==
    IF WellFormed(b) THEN [ok |-> TRUE, s |-> DecodeRange(b, 1, Len(b))]
    ELSE [ok |-> FALSE, s |-> << >>]

(***************************************************************************)
(* hashlib.sha256: a fixed function from byte strings to 64 hex digits.    *)
(* The model uses a small mixing function in its place; every step that    *)
(* the source takes around it (what is hashed, which digits are kept, how  *)
(* they are read) is the source's.                                         *)
(***************************************************************************)
RECURSIVE Absorb(_, _, _, _)
\* the bytes b[lo..hi] mixed for hex digit k
Absorb(b, k, lo, hi) ==
    IF lo > hi THEN 0
    ELSE IF lo = hi
         THEN b[lo] * (1 + ((lo * lo * 37 + lo * k * 101 + k * k * 13) % 251))
    ELSE LET mid == (lo + hi) \div 2
         IN  Absorb(b, k, lo, mid) + Absorb(b, k, mid + 1, hi)

HexChar(d) == IF d < 10 THEN 48 + d ELSE 87 + d

\* hexdigest()[0:n]
HexDigest(b, n) ==
    [k \in 1..n |->
        HexChar(((Absorb(b, k, 1, Len(b)) + (Len(b) + 1) * k * 977) \div 7) % 16)]

HexVal(c) == IF c >= 48 /\ c <= 57 THEN c - 48 ELSE c - 87

RECURSIVE HexToInt(_, _)
\* int(h[0:n], 16)
HexToInt(h, n) == IF n = 0 THEN 0 ELSE 16 * HexToInt(h, n - 1) + HexVal(h[n])

Abs(x) == IF x < 0 THEN 0 - x ELSE x

get_checksum(payload) == HexDigest(Utf8Encode(payload), checksum_bytes)

\* get_initial_pow with the distance taken from the middle of the range
get_initial_pow_mid(timestamp, nonce, checksum, target) ==
    LET b == Utf8Encode(timestamp) \o Utf8Encode(nonce) \o Utf8Encode(checksum)
    IN  Abs(target \div 2 - HexToInt(HexDigest(b, pow_bytes), pow_bytes))

get_initial_pow(timestamp, nonce, checksum, target) ==
    LET b == Utf8Encode(timestamp) \o Utf8Encode(nonce) \o Utf8Encode(checksum)
    IN  Abs(target - HexToInt(HexDigest(b, pow_bytes), pow_bytes))


(***************************************************************************)
(* datetime: a record of calendar fields, UTC.  Durations are counted in   *)
(* ticks, TicksPerSecond to the second; a datetime carries its            *)
(* microseconds, which the model takes at whole ticks.                     *)
(***************************************************************************)
TicksPerSecond == 2

IsDigit(c) == c >= 48 /\ c <= 57
IsSpace(c) == c \in {9, 10, 11, 12, 13, 28, 29, 30, 31, 32}

IsLeap(y) == (y % 4 = 0) /\ ((y % 100 # 0) \/ (y % 400 = 0))

DaysInMonth(y, m) ==
    IF m = 2 THEN (IF IsLeap(y) THEN 29 ELSE 28)
    ELSE IF m \in {4, 6, 9, 11} THEN 30 ELSE 31

RECURSIVE DaysBeforeMonth(_, _)
DaysBeforeMonth(y, m) ==
    IF m <= 1 THEN 0 ELSE DaysBeforeMonth(y, m - 1) + DaysInMonth(y, m - 1)

\* datetime.toordinal()
ToOrdinal(d) ==
    LET p == d.year - 1
    IN  p * 365 + (p \div 4) - (p \div 100) + (p \div 400)
        + DaysBeforeMonth(d.year, d.month) + d.day

\* the ticks of d.microsecond, to the nearest
TicksOf(d) == (d.microsecond * TicksPerSecond + 500000) \div 1000000

\* the timedelta a - b of datetimes a, b, in ticks
Elapsed(a, b) ==
    ((ToOrdinal(a) - ToOrdinal(b)) * 86400
     + (a.hour - b.hour) * 3600 + (a.minute - b.minute) * 60
     + (a.second - b.second)) * TicksPerSecond
    + TicksOf(a) - TicksOf(b)

RECURSIVE Digits(_, _)
\* '{:0wd}'.format(n)
Digits(n, w) ==
    IF w = 0 THEN << >> ELSE Append(Digits(n \div 10, w - 1), 48 + (n % 10))

\* dt.strftime('%Y%m%d%H%M%S')
strftime(d) ==
    Digits(d.year, 4) \o Digits(d.month, 2) \o Digits(d.day, 2)
    \o Digits(d.hour, 2) \o Digits(d.minute, 2) \o Digits(d.second, 2)

Num2(t, i) == (t[i] - 48) * 10 + (t[i + 1] - 48)

\* datetime.strptime(t, '%Y%m%d%H%M%S').replace(tzinfo = utc) for a string of
\* timestamp_bytes characters that int() accepts (parse calls it on no
\* other): None stands for the ValueError.  Every directive has to take its
\* full width of digits (a sign, an underscore or a blank matches none, and
\* a shorter match leaves unconverted data), and the fields have to name an
\* instant of the calendar.
strptime(t) ==
    IF Len(t) # timestamp_bytes \/ \E i \in 1..Len(t) : ~IsDigit(t[i])
    THEN None
    ELSE IF /\ Num2(t, 1) * 100 + Num2(t, 3) >= 1
            /\ Num2(t, 5) >= 1 /\ Num2(t, 5) <= 12
            /\ Num2(t, 7) >= 1
            /\ Num2(t, 7) <= DaysInMonth(Num2(t, 1) * 100 + Num2(t, 3), Num2(t, 5))
            /\ Num2(t, 9) <= 23 /\ Num2(t, 11) <= 59 /\ Num2(t, 13) <= 59
         THEN Some([year |-> Num2(t, 1) * 100 + Num2(t, 3),
                    month |-> Num2(t, 5), day |-> Num2(t, 7),
                    hour |-> Num2(t, 9), minute |-> Num2(t, 11),
                    second |-> Num2(t, 13), microsecond |-> 0])
         ELSE None

\* whether int(t) returns: surrounding whitespace, one optional sign, then
\* digits, with single underscores allowed between digits
IntParses(t) ==
    \E a \in 1..Len(t) : \E z \in a..Len(t) :
        /\ \A i \in 1..(a - 1) : IsSpace(t[i])
        /\ \A i \in (z + 1)..Len(t) : IsSpace(t[i])
        /\ LET f == IF t[a] \in {43, 45} THEN a + 1 ELSE a
           IN  /\ f <= z
               /\ IsDigit(t[f]) /\ IsDigit(t[z])
               /\ \A i \in f..z : IsDigit(t[i]) \/ t[i] = 95
               /\ \A i \in f..(z - 1) : ~(t[i] = 95 /\ t[i + 1] = 95)

RECURSIVE StrLess(_, _, _)
\* a[i..] < b[i..] in the order of Python's str
StrLess(a, b, i) ==
    IF i > Len(b) THEN FALSE
    ELSE IF i > Len(a) THEN TRUE
    ELSE IF a[i] # b[i] THEN a[i] < b[i]
    ELSE StrLess(a, b, i + 1)

StrGreater(a, b) == StrLess(b, a, 1)

\* s[a:b] of Python for 0 <= a, 0 <= b
Slice(s, a, b) == SubSeq(s, a + 1, Min(b, Len(s)))

startswith(s, p) == Len(s) >= Len(p) /\ SubSeq(s, 1, Len(p)) = p
endswith(s, p) == Len(s) >= Len(p) /\ SubSeq(s, Len(s) - Len(p) + 1, Len(s)) = p

(***************************************************************************)
(* Message_v0 objects.                                                     *)
(***************************************************************************)
\* Message_v0(): the object __init__ builds
Message_v0 ==
    [version |-> << 48 >>, timestamp_str |-> None, timestamp_obj |-> None,
     nonce |-> None, checksum |-> None, payload |-> None,
     initial_pow |-> None, current_pow |-> None, utc_now |-> None]

Quote == << 34 >>
Comma == << 34, 44, 34 >>

\* __str__ of a message whose string attributes are set
Str(m) ==
    << 91 >> \o Quote \o m.version \o Comma \o Get(m.timestamp_str) \o Comma
    \o Get(m.nonce) \o Comma \o Get(m.checksum) \o Comma \o Get(m.payload)
    \o Quote \o << 93 >>

\* '__info__', '__messages__', '__exit__', '__memory__'
P_info == << 95, 95, 105, 110, 102, 111, 95, 95 >>
P_messages == << 95, 95, 109, 101, 115, 115, 97, 103, 101, 115, 95, 95 >>
P_exit == << 95, 95, 101, 120, 105, 116, 95, 95 >>
P_memory == << 95, 95, 109, 101, 109, 111, 114, 121, 95, 95 >>
ControlPayloads == {P_info, P_messages, P_exit, P_memory}


\* ScaledPow without the cap 2**(4*pow_bytes) - 1
ScaledPow_uncapped(initial_pow, elapsed, length) ==
    (initial_pow * Max(elapsed, min_message_age * TicksPerSecond)
                 * Max(length, min_message_bytes))
    \div (min_message_age * TicksPerSecond * min_message_bytes)

\* min(2**(4*pow_bytes) - 1, int(initial_pow * age * size)) with
\* age = max(elapsed, min_message_age) / min_message_age and
\* size = max(length, min_message_bytes) / min_message_bytes, elapsed being
\* a timedelta in ticks.  The source multiplies floating-point quotients;
\* the model takes the floor of the exact product.
ScaledPow(initial_pow, elapsed, length) ==
    Min(PowLimit,
        (initial_pow * Max(elapsed, min_message_age * TicksPerSecond)
                     * Max(length, min_message_bytes))
        \div (min_message_age * TicksPerSecond * min_message_bytes))

\* update_pow(utc_now): the message with current_pow refreshed
update_pow(m, now) ==
    [m EXCEPT !.current_pow =
        Some(ScaledPow(Get(m.initial_pow),
                       Elapsed(now, Get(m.timestamp_obj)),
                       Len(Str(m))))]

(***************************************************************************)
(* Building a message: set_timestamp, set_payload, update_nonce.  A call   *)
(* gives the object as it leaves it, the exception it raises ("" when it   *)
(* returns) and its return value.                                          *)
(***************************************************************************)
Returned(self, ret) == [self |-> self, raised |-> "", ret |-> ret]
Raised(self, exc) == [self |-> self, raised |-> exc, ret |-> 0]

\* set_timestamp(utc_now), None standing for the default argument and clk
\* for datetime.now(timezone.utc)
set_timestamp(self, utc, clk) ==
    Returned([self EXCEPT
                 !.timestamp_obj = Some(IF utc = None THEN clk ELSE Get(utc)),
                 !.timestamp_str =
                     Some(strftime(IF utc = None THEN clk ELSE Get(utc)))], 0)

\* the end of set_payload: get_initial_pow encodes timestamp_str, which is
\* still None on an object set_timestamp was not called on
set_initial_pow(self) ==
    IF self.timestamp_str = None
    THEN Raised(self, "AttributeError")
    ELSE Returned([self EXCEPT !.initial_pow =
                      Some(get_initial_pow(Get(self.timestamp_str),
                                           Get(self.nonce), Get(self.checksum),
                                           pow_target))], 0)

\* set_payload(new_payload)
set_payload(self, new_payload) ==
    IF Len(new_payload) > max_payload_bytes
    THEN Raised(self, "Payload too large")
    ELSE set_initial_pow(
             [self EXCEPT !.payload = Some(new_payload),
                          !.checksum = Some(get_checksum(new_payload)),
                          !.nonce = IF self.nonce = None
                                    THEN Some(Rep(97, nonce_bytes))
                                    ELSE self.nonce])

\* the characters update_nonce draws nonces from: a-z, A-Z, 0-9
Alphabet(i) ==
    IF i < 26 THEN 97 + i ELSE IF i < 52 THEN 65 + (i - 26) ELSE 48 + (i - 52)

AlphabetSize == 62

RECURSIVE Candidate(_, _)
\* the element of index n (from 0) of product(alphabet, repeat = w): the
\* last character varies fastest
Candidate(n, w) ==
    IF w = 0 THEN << >>
    ELSE Append(Candidate(n \div AlphabetSize, w - 1), Alphabet(n % AlphabetSize))

\* the candidates of update_nonce the model follows the loop through
MaxTries == 24

RECURSIVE FirstBelow_or_at(_, _, _, _)
\* FirstBelow with a candidate qualifying at the threshold too
FirstBelow_or_at(timestamp_str, checksum, rp, n) ==
    IF n >= MaxTries THEN MaxTries
    ELSE IF get_initial_pow(timestamp_str, Candidate(n, nonce_bytes), checksum,
                            pow_target) <= rp
         THEN n
         ELSE FirstBelow_or_at(timestamp_str, checksum, rp, n + 1)

RECURSIVE FirstBelow(_, _, _, _)
\* the index of the first candidate from index n on whose initial_pow is
\* below rp, or MaxTries when there is none before that index
FirstBelow(timestamp_str, checksum, rp, n) ==
    IF n >= MaxTries THEN MaxTries
    ELSE IF get_initial_pow(timestamp_str, Candidate(n, nonce_bytes), checksum,
                            pow_target) < rp
         THEN n
         ELSE FirstBelow(timestamp_str, checksum, rp, n + 1)

\* update_nonce after its loop broke at the candidate of index n; at
\* MaxTries the model has not followed the loop to its end
Mined(self, n, now) ==
    IF n >= MaxTries THEN Raised(self, "Undecided")
    ELSE
    Returned(update_pow(
                 [self EXCEPT
                     !.nonce = Some(Candidate(n, nonce_bytes)),
                     !.initial_pow =
                         Some(get_initial_pow(Get(self.timestamp_str),
                                              Candidate(n, nonce_bytes),
                                              Get(self.checksum), pow_target)),
                     !.current_pow = None],
                 now),
             n + 1)

\* update_nonce with a threshold that is not negative: with 0 no candidate of
\* the whole product qualifies (no initial_pow, an absolute value, is below 0)
update_nonce_from(self, rp, now) ==
    IF self.timestamp_str = None \/ self.checksum = None
    THEN Raised([self EXCEPT !.initial_pow = None, !.current_pow = None],
                "AttributeError")
    ELSE IF rp = 0
         THEN Raised([self EXCEPT !.initial_pow = None, !.current_pow = None],
                     "Couldn't reach target proof of work")
         ELSE Mined(self,
                    FirstBelow(Get(self.timestamp_str), Get(self.checksum), rp, 0),
                    now)

\* update_nonce(required_pow, utc_now), None standing for the default
\* utc_now and clk for datetime.now(timezone.utc)
update_nonce(self, rp, utc, clk) ==
    update_nonce_from(self, IF rp < 0 THEN 2^(4 * pow_bytes) - 1 ELSE rp,
                      IF utc = None THEN clk ELSE Get(utc))

\* the model followed the loop of update_nonce to its end in the call r
Decided(r) == r.raised # "Undecided"

\* a reply line: its text without the number it may carry, and the number
Reply(text, num) == [text |-> text, num |-> num, lines |-> << >>]
NoReply == Reply("", 0)

FramePrefix == << 91, 34, 48, 34, 44, 34 >>
FrameSuffix == << 34, 93 >>

\* the slices parse takes of s
d_start == 5 + version_bytes
d_end == d_start + timestamp_bytes
n_start == 3 + d_end
n_end == n_start + nonce_bytes
c_start == 3 + n_end
c_end == c_start + checksum_bytes
p_start == 3 + c_end
TimestampOf(s) == Slice(s, d_start, d_end)
NonceOf(s) == Slice(s, n_start, n_end)
ChecksumOf(s) == Slice(s, c_start, c_end)
PayloadOf(s) == Slice(s, p_start, Len(s) - 2)

\* parse returns an error: the reply, and self as it was
Fail(self, text, num) == [reply |-> Reply(text, num), self |-> self]

\* the end of parse, from the comparison of current_pow on
parse_current(self, s, rp, initial_pow, timestamp_obj, current_pow) ==
    IF current_pow > rp THEN Fail(self, "Required PoW: 0x", rp)
    ELSE [reply |-> NoReply,
          self |-> [self EXCEPT !.timestamp_str = Some(TimestampOf(s)),
                                !.timestamp_obj = timestamp_obj,
                                !.nonce = Some(NonceOf(s)),
                                !.checksum = Some(ChecksumOf(s)),
                                !.payload = Some(PayloadOf(s)),
                                !.initial_pow = Some(initial_pow),
                                !.current_pow = Some(current_pow)]]

\* parse_initial, except that it assigns the fields before it compares the
\* checksum
parse_initial_early(self, s, rp, now, initial_pow, timestamp_obj) ==
    IF initial_pow > rp THEN Fail(self, "Required PoW: 0x", rp)
    ELSE IF timestamp_obj = None THEN Fail(self, "Wrong format/datetime", 0)
    ELSE IF ChecksumOf(s) # get_checksum(PayloadOf(s))
         THEN Fail([self EXCEPT !.timestamp_str = Some(TimestampOf(s)),
                                !.nonce = Some(NonceOf(s))],
                   "Wrong checksum", 0)
    ELSE parse_current(self, s, rp, initial_pow, timestamp_obj,
                       ScaledPow(initial_pow,
                                 Elapsed(now, Get(timestamp_obj)), Len(s)))

\* parse from the comparison of initial_pow on
parse_initial(self, s, rp, now, initial_pow, timestamp_obj) ==
    IF initial_pow > rp THEN Fail(self, "Required PoW: 0x", rp)
    ELSE IF timestamp_obj = None THEN Fail(self, "Wrong format/datetime", 0)
    ELSE IF ChecksumOf(s) # get_checksum(PayloadOf(s))
         THEN Fail(self, "Wrong checksum", 0)
    ELSE parse_current(self, s, rp, initial_pow, timestamp_obj,
                       ScaledPow(initial_pow,
                                 Elapsed(now, Get(timestamp_obj)), Len(s)))

\* parse, except that it looks at the suffix before the prefix
parse_swapped(self, s, rp, now) ==
    IF Len(s) < overhead_bytes THEN Fail(self, "Message too short: ", Len(s))
    ELSE IF ~endswith(s, FrameSuffix) THEN Fail(self, "Wrong format/payload", 0)
    ELSE IF ~startswith(s, FramePrefix) THEN Fail(self, "Wrong format/version", 0)
    ELSE IF ~IntParses(TimestampOf(s)) THEN Fail(self, "Wrong format/datetime", 0)
    ELSE IF StrGreater(TimestampOf(s), strftime(now))
         THEN Fail(self, "Datetime in future", 0)
    ELSE parse_initial(self, s, rp, now,
                       get_initial_pow(TimestampOf(s), NonceOf(s), ChecksumOf(s),
                                       pow_target),
                       strptime(TimestampOf(s)))

\* parse without the comparison of the timestamp with the clock
parse_unclocked(self, s, rp, now) ==
    IF Len(s) < overhead_bytes THEN Fail(self, "Message too short: ", Len(s))
    ELSE IF ~startswith(s, FramePrefix) THEN Fail(self, "Wrong format/version", 0)
    ELSE IF ~endswith(s, FrameSuffix) THEN Fail(self, "Wrong format/payload", 0)
    ELSE IF ~IntParses(TimestampOf(s)) THEN Fail(self, "Wrong format/datetime", 0)
    ELSE parse_initial(self, s, rp, now,
                       get_initial_pow(TimestampOf(s), NonceOf(s), ChecksumOf(s),
                                       pow_target),
                       strptime(TimestampOf(s)))

\* parse(s, required_pow, utc_now) on the object self, now being the instant
\* that utc_now or the clock gives: the reply ('' is text "") and the object
\* afterwards.
parse(self, s, rp, now) ==
    IF Len(s) < overhead_bytes THEN Fail(self, "Message too short: ", Len(s))
    ELSE IF ~startswith(s, FramePrefix) THEN Fail(self, "Wrong format/version", 0)
    ELSE IF ~endswith(s, FrameSuffix) THEN Fail(self, "Wrong format/payload", 0)
    ELSE IF ~IntParses(TimestampOf(s)) THEN Fail(self, "Wrong format/datetime", 0)
    ELSE IF StrGreater(TimestampOf(s), strftime(now))
         THEN Fail(self, "Datetime in future", 0)
    ELSE parse_initial(self, s, rp, now,
                       get_initial_pow(TimestampOf(s), NonceOf(s), ChecksumOf(s),
                                       pow_target),
                       strptime(TimestampOf(s)))

(***************************************************************************)
(* The server (src/server1.py).  messages is the dict in its iteration     *)
(* order (the order of first insertion of the keys that are present): a    *)
(* sequence of message objects with pairwise different initial_pow.        *)
(***************************************************************************)
RECURSIVE SumLen(_, _)
SumLen(msgs, i) == IF i = 0 THEN 0 ELSE SumLen(msgs, i - 1) + Len(Str(msgs[i]))

get_storage_used(msgs) == SumLen(msgs, Len(msgs))

\* every stored message after message.update_pow(now)
Refreshed(msgs, now) == [i \in 1..Len(msgs) |-> update_pow(msgs[i], now)]

RECURSIVE WorstFrom_last(_, _, _)
\* WorstFrom with a later message taking over at an equal current_pow
WorstFrom_last(msgs, i, start) ==
    IF i = 0 THEN start
    ELSE LET w == WorstFrom_last(msgs, i - 1, start)
         IN  IF w[2] <= Get(msgs[i].current_pow)
             THEN << Get(msgs[i].initial_pow), Get(msgs[i].current_pow) >>
             ELSE w

RECURSIVE WorstFrom(_, _, _)
\* the loop of get_worst_pow over msgs[1..i]: <<worst_initial, worst_current>>
WorstFrom(msgs, i, start) ==
    IF i = 0 THEN start
    ELSE LET w == WorstFrom(msgs, i - 1, start)
         IN  IF w[2] < Get(msgs[i].current_pow)
             THEN << Get(msgs[i].initial_pow), Get(msgs[i].current_pow) >>
             ELSE w

\* Worst with the pair returned as (worst_current, worst_initial)
Worst_swapped(fresh) ==
    [worst |-> << WorstFrom(fresh, Len(fresh), << 0, 0 >>)[2],
                  WorstFrom(fresh, Len(fresh), << 0, 0 >>)[1] >>,
     messages |-> fresh]

\* what get_worst_pow returns over the refreshed store, and that store
Worst(fresh) ==
    [worst |-> WorstFrom(fresh, Len(fresh), << 0, 0 >>), messages |-> fresh]

\* get_worst_pow(): the pair it returns and the store it leaves (every
\* message refreshed against now)
get_worst_pow(msgs, now) == Worst(Refreshed(msgs, now))

\* messages.pop(key, None)
Pop(msgs, key) == SelectSeq(msgs, LAMBDA m : Get(m.initial_pow) # key)

\* messages[message.initial_pow] = message
Store(msgs, msg) ==
    IF \E i \in 1..Len(msgs) : msgs[i].initial_pow = msg.initial_pow
    THEN [i \in 1..Len(msgs) |->
            IF msgs[i].initial_pow = msg.initial_pow THEN msg ELSE msgs[i]]
    ELSE Append(msgs, msg)

\* one more iteration of the while loop, in which get_worst_pow gave the
\* pair worst, before the outcome room; room keeps the pair of the latest call
Iterated(room, worst) ==
    [room EXCEPT !.iterations = @ + 1,
                 !.worst = IF room.iterations = 0 THEN worst ELSE @]

RECURSIVE MakeRoom(_, _, _, _)
RECURSIVE Evict(_, _, _, _)
\* the body of the while loop, w being what get_worst_pow gave: the
\* rejection, or the pop and the next test of the loop.  A pop of a key that
\* is not in the store leaves the loop where it was, to run for ever (hangs).
Evict(w, msg, now, cap) ==
    IF Get(msg.current_pow) > w.worst[2]
    THEN [rejected |-> TRUE, hangs |-> FALSE, iterations |-> 1,
          worst |-> w.worst,
          worst_current |-> w.worst[2], messages |-> w.messages]
    ELSE IF Pop(w.messages, w.worst[1]) = w.messages
         THEN [rejected |-> FALSE, hangs |-> TRUE, iterations |-> 1,
               worst |-> w.worst,
               worst_current |-> w.worst[2], messages |-> w.messages]
    ELSE Iterated(MakeRoom(Pop(w.messages, w.worst[1]), msg, now, cap), w.worst)

\* the while loop of handle_message: the store it leaves, whether it
\* returned the rejection (with worst_current) and the iterations it ran
MakeRoom(msgs, msg, now, cap) ==
    IF Len(msgs) > 0 /\ Len(Str(msg)) + get_storage_used(msgs) > cap
    THEN Evict(get_worst_pow(msgs, now), msg, now, cap)
    ELSE [rejected |-> FALSE, hangs |-> FALSE, iterations |-> 0,
          worst |-> << 0, 0 >>,
          worst_current |-> 0, messages |-> msgs]

\* what the handler did in the while loop: no iteration when it did not
\* reach the loop
Loop(room) ==
    [iterations |-> room.iterations, hangs |-> room.hangs, worst |-> room.worst]
NoLoop == [iterations |-> 0, hangs |-> FALSE, worst |-> << 0, 0 >>]

\* Special, except that __exit__ is honoured without a synthetic clock
Special_ungated(msg, msgs, rp, test) ==
    IF Get(msg.payload) = P_info THEN Reply("Required pow: 0x", rp)
    ELSE IF Get(msg.payload) = P_messages
         THEN [text |-> "", num |-> 0,
               lines |-> [i \in 1..Len(msgs) |-> Str(msgs[i])]]
    ELSE IF Get(msg.payload) = P_exit THEN Reply("Exiting...", 0)
    ELSE IF Get(msg.payload) = P_memory
         THEN IF test
              THEN Reply("Total memory used by messages: ", get_storage_used(msgs))
              ELSE Reply("Ignoring __memory__", 0)
    ELSE NoReply

\* the branches for the special payloads: the reply, or NoReply when the
\* payload is none of them
Special(msg, msgs, rp, test) ==
    LET payload == Get(msg.payload)
    IN  IF payload = P_info THEN Reply("Required pow: 0x", rp)
        ELSE IF payload = P_messages
             THEN [text |-> "", num |-> 0,
                   lines |-> [i \in 1..Len(msgs) |-> Str(msgs[i])]]
        ELSE IF payload = P_exit
             THEN IF test THEN Reply("Exiting...", 0)
                  ELSE Reply("Ignoring __exit__", 0)
        ELSE IF payload = P_memory
             THEN IF test
                  THEN Reply("Total memory used by messages: ", get_storage_used(msgs))
                  ELSE Reply("Ignoring __memory__", 0)
        ELSE NoReply

\* IsSpecial, except that '__memory__' is an ordinary payload
IsSpecial_three(msg) == Get(msg.payload) \in ControlPayloads \ {P_memory}

\* whether one of the branches for the special payloads is taken
IsSpecial(msg) == Get(msg.payload) \in ControlPayloads

\* Insert, except that required_pow becomes message.current_pow
Insert_assign(room, msg, rp) ==
    IF room.hangs
    THEN [reply |-> NoReply, loop |-> Loop(room),
          messages |-> room.messages, required_pow |-> rp]
    ELSE IF room.rejected
    THEN [reply |-> Reply("Required pow: 0x", room.worst_current),
          loop |-> Loop(room),
          messages |-> room.messages, required_pow |-> rp]
    ELSE [reply |-> Reply("ok", 0), loop |-> Loop(room),
          messages |-> Store(room.messages, msg),
          required_pow |-> Get(msg.current_pow)]

\* after the loop left room: the rejection it returned, or the insertion,
\* the new required_pow and 'ok'; nothing after a loop that never ends
Insert(room, msg, rp) ==
    IF room.hangs
    THEN [reply |-> NoReply, loop |-> Loop(room),
          messages |-> room.messages, required_pow |-> rp]
    ELSE IF room.rejected
    THEN [reply |-> Reply("Required pow: 0x", room.worst_current),
          loop |-> Loop(room),
          messages |-> room.messages, required_pow |-> rp]
    ELSE [reply |-> Reply("ok", 0), loop |-> Loop(room),
          messages |-> Store(room.messages, msg),
          required_pow |-> Max(rp, Get(msg.current_pow))]

\* the admission of a verified message that is not special: the loop, the
\* insertion, the new required_pow and the reply
Admit(msg, msgs, rp, now, cap) == Insert(MakeRoom(msgs, msg, now, cap), msg, rp)

\* data.decode('utf-8') gave dec: the parse of the string on a new object
Parsed(v) == [raised |-> FALSE, reply |-> v.reply, self |-> v.self]
Decoded(dec, rp, now) ==
    IF ~dec.ok THEN [raised |-> TRUE, reply |-> NoReply, self |-> Message_v0]
    ELSE Parsed(parse(Message_v0, dec.s, rp, now))

\* message = Message_v0(); reply = message.parse(data.decode('utf-8'),
\* required_pow, utc_now): raised is the UnicodeDecodeError of data.decode
Verified(bytes, rp, now) == Decoded(Utf8Decode(bytes), rp, now)

(***************************************************************************)
(* The frames and instants the model draws its inputs from.                *)
(***************************************************************************)
\* the frame of a message with the given timestamp string, nonce and payload
\* and the checksum of the payload
Frame(timestamp_str, nonce, payload) ==
    Str([Message_v0 EXCEPT !.timestamp_str = Some(timestamp_str),
                           !.nonce = Some(nonce),
                           !.checksum = Some(get_checksum(payload)),
                           !.payload = Some(payload)])

Instant(h, mi, s) ==
    [year |-> 2000, month |-> 1, day |-> 1, hour |-> h, minute |-> mi, second |-> s,
     microsecond |-> 0]


T0 == Instant(0, 0, 30)
T1 == Instant(0, 0, 50)
\* the instants the wall clock takes
Clocks == {T0, T1}

\* a nonce: 'a' * (nonce_bytes - 1) and one more character
Nonce(c) == Rep(97, nonce_bytes - 1) \o << c >>

X(n) == Rep(120, n)

\* frames that verify at T0 and are stored: of 53, 53 and 76 characters
StoredFrames ==
    { Frame(strftime(T0), Nonce(97), X(0)),
      Frame(strftime(T0), Nonce(98), X(0)),
      Frame(strftime(T0), Nonce(97), X(23)) }

ControlFrames == { Frame(strftime(T0), Nonce(97), p) : p \in ControlPayloads }

BaseFrame == Frame(strftime(T0), Nonce(97), X(5))

\* s with the character at index i (from 1) replaced by c
Put(s, i, c) == [s EXCEPT ![i] = c]

\* frames the verifier rejects: too short, one second after T0, and a
\* payload ('e' with an acute accent, two bytes) that the checksum is not of
BadFrames ==
    { << >>,
      Frame(strftime(Instant(0, 0, 31)), Nonce(97), X(5)),
      Put(BaseFrame, Len(BaseFrame) - 2, 233) }

\* what a client may send before it closes its side; the last is no UTF-8
Inputs ==
    { Utf8Encode(s) : s \in StoredFrames \cup ControlFrames \cup BadFrames }
    \cup { << 255 >> }

\* Verified for the inputs and instants of the model at the initial
\* required_pow, as pairs of arguments and result
VerifyTable ==
    { << << b, PowLimit, t >>, Verified(b, PowLimit, t) >> :
        b \in Inputs, t \in Clocks }

\* Verified(bytes, rp, now), read from the table where it holds the arguments
Verify(bytes, rp, now) ==
    LET key == << bytes, rp, now >>
    IN  IF \E e \in VerifyTable : e[1] = key
        THEN (CHOOSE e \in VerifyTable : e[1] = key)[2]
        ELSE Verified(bytes, rp, now)

\* handle_message from its first writer.write on: wrote tells whether
\* writer.write was called (with reply)
Keep(v, wrote, reply, msgs, rp) ==
    [raised |-> v.raised, wrote |-> wrote, reply |-> reply, loop |-> NoLoop,
     message |-> v.self, messages |-> msgs, required_pow |-> rp]
Admitted(v, a) ==
    [raised |-> FALSE, wrote |-> ~a.loop.hangs, reply |-> a.reply,
     loop |-> a.loop,
     message |-> v.self, messages |-> a.messages, required_pow |-> a.required_pow]

\* handle_message after message.parse returned (or data.decode raised)
Respond(v, msgs, rp, now, test, cap) ==
    IF v.raised THEN Keep(v, FALSE, NoReply, msgs, rp)
    ELSE IF v.reply # NoReply THEN Keep(v, TRUE, v.reply, msgs, rp)
    ELSE IF IsSpecial(v.self)
         THEN Keep(v, TRUE, Special(v.self, msgs, rp, test), msgs, rp)
    ELSE Admitted(v, Admit(v.self, msgs, rp, now, cap))

\* handle_message from the return of reader.read() to its next await
Serve(bytes, msgs, rp, now, test, cap) ==
    Respond(Verify(bytes, rp, now), msgs, rp, now, test, cap)

\* the values of --mem
StorageChoices == {60, 128}

\* the number of connections that are open at the same time
NConn == 2
Conns == 1..NConn

\* the strings, thresholds and instants parse is called with when it is
\* exercised alone
ParseStrings ==
    StoredFrames \cup BadFrames
    \cup { BaseFrame,
           Put(BaseFrame, 1, 120),
           Put(Put(BaseFrame, 1, 120), Len(BaseFrame), 120),
           Put(BaseFrame, Len(BaseFrame), 120),
           Put(Put(BaseFrame, Len(BaseFrame), 120), d_start + 1, 120),
           Put(BaseFrame, d_start + timestamp_bytes, 120),
           Put(BaseFrame, d_start + timestamp_bytes, 95),
           Frame(Put(strftime(T0), 8, 48), Nonce(97), X(5)),
           Put(Frame(Put(strftime(T0), 8, 48), Nonce(97), X(5)),
               Len(BaseFrame) - 2, 121),
           Put(BaseFrame, Len(BaseFrame) - 2, 121),
           SubSeq(BaseFrame, 2, 20) }
\* the values of required_pow parse is called with
ParsePows == {5, 200, PowLimit}

VARIABLES
    messages,       \* the store, in iteration order
    required_pow,
    max_storage,    \* --mem
    utc_now,        \* --current-time: None, or Some(instant) when testing
    clock,          \* datetime.now(timezone.utc)
    running,        \* FALSE once exit(0) ran
    pc,             \* where the handler of each connection is suspended
    message,        \* the local message of a handler that still uses it
                    \* where it is suspended (none does at an await of the
                    \* source)
    replies,        \* the number of writer.write calls on each connection
    last,           \* the latest return of reader.read() and what the
                    \* handler did then: the connection, the bytes, the
                    \* instant, the message it built and the reply it wrote
    serial,         \* the store and required_pow of the handlers run one
                    \* after another, in the order of their reads of required_pow
    obj,            \* a Message_v0 object that parse is called on directly
    call,           \* the latest of these calls: arguments and return value
    gen             \* the Message_v0 object of a generator and the latest
                    \* call on it: the method, its arguments, what it raised
                    \* or returned, and for a parse of a frame the verifying
                    \* object and its reply

server_vars == << messages, required_pow, max_storage, utc_now, clock, running,
                  pc, message, replies, last, serial >>
parse_vars == << obj, call, gen >>
vars == << server_vars, parse_vars >>

\* utc_now, or datetime.now(timezone.utc) when it is None
NowOf(utc, clk) == IF utc = None THEN clk ELSE Get(utc)

\* the awaits of handle_message: reader.read(), writer.drain() and
\* writer.wait_closed(), the last two also in the branch that ends in exit(0)
AwaitPoints ==
    {"idle", "read", "drain", "wait_closed", "drain_exit", "wait_closed_exit",
     "done"}

\* "loop": the handler is in a while loop that never ends, and with it the
\* event loop (running is FALSE from then on)

NoCall == [s |-> << >>, rp |-> 0, now |-> T0, reply |-> NoReply]

\* message = Message_v0() of the generator, no method called yet
NewGen ==
    [self |-> Message_v0, calls |-> 0, built |-> FALSE,
     op |-> "new", raised |-> "", ret |-> 0,
     arg |-> << >>, rp |-> 0, now |-> T0, W |-> 0, D |-> 0,
     reply |-> NoReply, parsed |-> Message_v0]

InitServer ==
    /\ messages = << >>
    /\ required_pow = 2^(4 * pow_bytes) - 1
    /\ clock = T0
    /\ running = TRUE
    /\ pc = [c \in Conns |-> "idle"]
    /\ message = [c \in Conns |-> Message_v0]
    /\ replies = [c \in Conns |-> 0]
    /\ last = [conn |-> 0, data |-> << >>, now |-> T0, message |-> Message_v0,
               reply |-> NoReply, loop |-> NoLoop]
    /\ serial = [messages |-> << >>, required_pow |-> 2^(4 * pow_bytes) - 1]

Init ==
    /\ InitServer
    /\ max_storage \in StorageChoices
    /\ utc_now \in {None, Some(T0)}
    /\ obj = Message_v0
    /\ call = NoCall
    /\ gen = NewGen

\* a client connects: the handler starts and waits in reader.read()
Connect(c) ==
    /\ running
    /\ pc[c] \in {"idle", "done"}
    /\ pc' = [pc EXCEPT ![c] = "read"]
    /\ replies' = [replies EXCEPT ![c] = 0]
    /\ UNCHANGED << messages, required_pow, max_storage, utc_now, clock,
                    running, message, last, serial, parse_vars >>

\* handle_message from the return of reader.read() with the bytes b to its
\* next await: writer.drain() after the one writer.write, or the end of the
\* task when data.decode raised
HandleBytes(c, b) ==
    \E r \in { Serve(b, messages, required_pow, NowOf(utc_now, clock),
                      utc_now # None, max_storage) } :
    \E g \in { IF serial = [messages |-> messages, required_pow |-> required_pow]
                THEN r
                ELSE Serve(b, serial.messages, serial.required_pow,
                           NowOf(utc_now, clock), utc_now # None, max_storage) } :
        /\ messages' = r.messages
        /\ required_pow' = r.required_pow
        /\ replies' = [replies EXCEPT ![c] = IF r.wrote THEN @ + 1 ELSE @]
        /\ last' = [conn |-> c, data |-> b, now |-> NowOf(utc_now, clock),
                    message |-> r.message, reply |-> r.reply, loop |-> r.loop]
        /\ pc' = [pc EXCEPT ![c] =
                    IF r.raised THEN "done"
                    ELSE IF r.loop.hangs THEN "loop"
                    ELSE IF r.reply.text = "Exiting..." THEN "drain_exit"
                    ELSE "drain"]
        /\ running' = ~r.loop.hangs
        /\ serial' = [messages |-> g.messages, required_pow |-> g.required_pow]
        /\ UNCHANGED << max_storage, utc_now, clock, message, parse_vars >>

\* Handle, except that the handler yields to the event loop between
\* message.parse and the loop that makes room
HandleYielding(c) ==
    /\ running
    /\ \/ /\ pc[c] = "read"
          /\ \E b \in Inputs :
             \E v \in { Verify(b, required_pow, NowOf(utc_now, clock)) } :
                IF v.raised \/ v.reply # NoReply \/ IsSpecial(v.self)
                THEN HandleBytes(c, b)
                ELSE /\ pc' = [pc EXCEPT ![c] = "yield"]
                     /\ message' = [message EXCEPT ![c] = v.self]
                     /\ UNCHANGED << messages, required_pow, max_storage, utc_now,
                                     clock, running, replies, last, serial,
                                     parse_vars >>
       \/ /\ pc[c] = "yield"
          /\ \E a \in { Admit(message[c], messages, required_pow,
                              NowOf(utc_now, clock), max_storage) } :
             \E g \in { Admit(message[c], serial.messages, serial.required_pow,
                              NowOf(utc_now, clock), max_storage) } :
                /\ messages' = a.messages
                /\ required_pow' = a.required_pow
                /\ replies' = [replies EXCEPT ![c] = @ + 1]
                /\ last' = [conn |-> c, data |-> Utf8Encode(Str(message[c])),
                            now |-> NowOf(utc_now, clock),
                            message |-> message[c], reply |-> a.reply,
                            loop |-> a.loop]
                /\ pc' = [pc EXCEPT ![c] = "drain"]
                /\ message' = [message EXCEPT ![c] = Message_v0]
                /\ serial' = [messages |-> g.messages,
                              required_pow |-> g.required_pow]
                /\ UNCHANGED << max_storage, utc_now, clock, running, parse_vars >>

\* the client has sent its bytes and closed its side: reader.read() returns
Handle(c) ==
    /\ running
    /\ pc[c] = "read"
    /\ \E b \in Inputs : HandleBytes(c, b)

\* writer.drain() returns; writer.close(); the handler waits in
\* writer.wait_closed()
Drain(c) ==
    /\ running
    /\ pc[c] \in {"drain", "drain_exit"}
    /\ pc' = [pc EXCEPT ![c] =
                IF pc[c] = "drain_exit" THEN "wait_closed_exit" ELSE "wait_closed"]
    /\ UNCHANGED << messages, required_pow, max_storage, utc_now, clock,
                    running, message, replies, last, serial, parse_vars >>

\* writer.wait_closed() returns; the handler returns, or runs exit(0): the
\* event loop stops and every other task is cancelled where it waits
Closed(c) ==
    /\ running
    /\ pc[c] \in {"wait_closed", "wait_closed_exit"}
    /\ pc' = [pc EXCEPT ![c] = "done"]
    /\ running' = (pc[c] # "wait_closed_exit")
    /\ UNCHANGED << messages, required_pow, max_storage, utc_now, clock,
                    message, replies, last, serial, parse_vars >>

\* the wall clock advances (it is read only when utc_now is None)
Tick ==
    /\ running
    /\ utc_now = None
    /\ \E d \in Clocks : Elapsed(d, clock) > 0 /\ clock' = d
    /\ UNCHANGED << messages, required_pow, max_storage, utc_now, running,
                    pc, message, replies, last, serial, parse_vars >>

Next ==
    \/ \E c \in Conns : Connect(c)
    \/ \E c \in Conns : Handle(c)
    \/ \E c \in Conns : Drain(c)
    \/ \E c \in Conns : Closed(c)
    \/ Tick

Spec == Init /\ [][Next]_vars

(***************************************************************************)
(* parse alone: calls with every string, threshold and instant of the sets *)
(* above on one object, which a successful call populates.                 *)
(***************************************************************************)
InitParse ==
    /\ InitServer
    /\ max_storage = 128
    /\ utc_now = None
    /\ obj = Message_v0
    /\ call = NoCall
    /\ gen = NewGen

\* reply = obj.parse(s, rp, now)
ParseCall(s, rp, now) ==
    \E r \in { parse(obj, s, rp, now) } :
        /\ obj' = r.self
        /\ call' = [s |-> s, rp |-> rp, now |-> now, reply |-> r.reply]
        /\ UNCHANGED << server_vars, gen >>

NextParse == \E s \in ParseStrings, rp \in ParsePows, now \in Clocks : ParseCall(s, rp, now)

SpecParse == InitParse /\ [][NextParse]_vars

(***************************************************************************)
(* The store alone: one client at a time sends frames that verify, among   *)
(* them two with the initial_pow 0, two with the initial_pow 4 and two     *)
(* whose current_pow is at its cap at T1.                                  *)
(***************************************************************************)
\* of 53, 53, 53, 58, 76 and 76 characters, with the initial_pow 4, 0, 165,
\* 158, 4 and 0
StoreFrames ==
    { Frame(strftime(T0), Nonce(97), X(0)),
      Frame(strftime(T0), Candidate(249, nonce_bytes), X(0)),
      Frame(strftime(T0), Nonce(98), X(0)),
      BaseFrame,
      Frame(strftime(T0), Candidate(46, nonce_bytes), X(23)),
      Frame(strftime(T0), Candidate(16, nonce_bytes), X(23)) }

StoreInputs == { Utf8Encode(f) : f \in StoreFrames }

\* the values of --mem
StoreChoices == {128, 180}

InitStore ==
    /\ InitServer
    /\ max_storage \in StoreChoices
    /\ utc_now \in {None, Some(T0)}
    /\ obj = Message_v0
    /\ call = NoCall
    /\ gen = NewGen

\* Handle for a client that sends one of StoreInputs
HandleStore(c) ==
    /\ running
    /\ pc[c] = "read"
    /\ \E b \in StoreInputs : HandleBytes(c, b)

NextStore ==
    \/ Connect(1)
    \/ HandleStore(1)
    \/ Drain(1)
    \/ Closed(1)
    \/ Tick

SpecStore == InitStore /\ [][NextStore]_vars

(***************************************************************************)
(* The generator: a message is built by set_timestamp, set_payload and     *)
(* update_nonce, called one by one (SpecBuild) or in the loop of           *)
(* generate1.py (SpecGenerate), and a verifier parses what is printed.     *)
(***************************************************************************)
\* half a second after T0
T0h == [T0 EXCEPT !.microsecond = 500000]

\* the utc_now arguments of set_timestamp and of update_nonce (None: the
\* default, the wall clock), the payloads, the thresholds of update_nonce
\* (-1: the default) and the instants of a verifier
BuildStamps == {None, Some(T0h)}
BuildNows == {None, Some(T1)}
BuildPayloads == {X(0), X(5), X(max_payload_bytes), X(max_payload_bytes + 1)}
GenPayloads == {X(0), X(23), X(max_payload_bytes), X(max_payload_bytes + 1)}
\* the last is the initial_pow of the first candidate for the payload X(5)
BuildPows ==
    {-1, 0, 16,
     get_initial_pow(strftime(T0), Rep(97, nonce_bytes), get_checksum(X(5)),
                     pow_target)}
VerifyNows == {T0, T1}

\* frames built elsewhere: payloads of max_payload_bytes and one more character
WireFrames ==
    { Frame(strftime(T0), Nonce(97), X(max_payload_bytes)),
      Frame(strftime(T0), Nonce(97), X(max_payload_bytes + 1)) }

\* --pow (read as hex) and --duration (seconds) of generate1.py
GenPows == {64, 2^(4 * pow_bytes) - 1}
GenDurations == {5, 20}

\* the calls the model makes on one generator object
MaxCalls == 3

\* the latest call on the generator's object and its outcome; the message is
\* built when update_nonce was the latest call on it and returned
Called(op, r, arg, rp, now) ==
    [gen EXCEPT !.self = r.self, !.calls = @ + 1, !.op = op,
                !.built = (op \in {"update_nonce", "generate"} /\ r.raised = ""),
                !.raised = r.raised, !.ret = r.ret,
                !.arg = arg, !.rp = rp, !.now = now,
                !.reply = NoReply, !.parsed = Message_v0]

InitBuild ==
    /\ InitServer
    /\ max_storage = 128
    /\ utc_now = None
    /\ obj = Message_v0
    /\ call = NoCall
    /\ gen = NewGen

\* message.set_timestamp(t)
SetTimestamp(t) ==
    /\ gen.calls < MaxCalls
    /\ gen' = Called("set_timestamp", set_timestamp(gen.self, t, clock),
                     << >>, 0, NowOf(t, clock))
    /\ UNCHANGED << server_vars, obj, call >>

\* message.set_payload(p)
SetPayload(p) ==
    /\ gen.calls < MaxCalls
    /\ gen' = Called("set_payload", set_payload(gen.self, p), p, 0, gen.now)
    /\ UNCHANGED << server_vars, obj, call >>

\* message.update_nonce(rp, now)
UpdateNonce(rp, now) ==
    /\ gen.calls < MaxCalls
    /\ \E r \in { update_nonce(gen.self, rp, now, clock) } :
          /\ Decided(r)
          /\ gen' = Called("update_nonce", r, << >>, rp, NowOf(now, clock))
    /\ UNCHANGED << server_vars, obj, call >>

\* args.pow left as given, whatever the duration
Threshold_unscaled(W, D) == W

\* int(args.pow / age) with age = max(args.duration, min_message_age)
\* / min_message_age, the duration in seconds
Threshold(W, D) == (W * min_message_age) \div Max(D, min_message_age)

\* update_nonce of the loop body, after set_payload left the call r
GenerateMine(r, W, D, now) ==
    IF r.raised # "" THEN r
    ELSE update_nonce(r.self, Threshold(W, D), Some(now), clock)

\* one iteration of the loop of generate1.py for a payload p, with
\* --message-time mt, --current-time ct, --pow W and --duration D
Generate(p, mt, ct, W, D) ==
    /\ gen.calls < MaxCalls
    /\ \E r \in { GenerateMine(
                       set_payload(set_timestamp(gen.self, Some(mt), clock).self, p),
                       W, D, ct) } :
          /\ Decided(r)
          /\ gen' = [Called("generate", r, p, Threshold(W, D), ct)
                        EXCEPT !.W = W, !.D = D]
    /\ UNCHANGED << server_vars, obj, call >>

\* the generator's message as printed, once its string attributes are set
Printed ==
    IF \/ gen.self.timestamp_str = None \/ gen.self.nonce = None
       \/ gen.self.checksum = None \/ gen.self.payload = None
    THEN { }
    ELSE { Str(gen.self) }

\* Message_v0().parse(s, 2**(4*pow_bytes) - 1, now) on a new object
Receive(s, now) ==
    /\ \E r \in { parse(Message_v0, s, 2^(4 * pow_bytes) - 1, now) } :
          gen' = [gen EXCEPT !.op = "parse", !.arg = s, !.now = now,
                             !.reply = r.reply, !.parsed = r.self]
    /\ UNCHANGED << server_vars, obj, call >>

NextBuild ==
    \/ \E t \in BuildStamps : SetTimestamp(t)
    \/ \E p \in BuildPayloads : SetPayload(p)
    \/ \E rp \in BuildPows, now \in BuildNows : UpdateNonce(rp, now)
    \/ \E s \in Printed \cup WireFrames, now \in VerifyNows : Receive(s, now)

SpecBuild == InitBuild /\ [][NextBuild]_vars

NextGenerate ==
    \/ \E p \in GenPayloads, ct \in Clocks, W \in GenPows, D \in GenDurations :
          Generate(p, T0, ct, W, D)
    \/ \E s \in Printed, now \in VerifyNows : Receive(s, now)

SpecGenerate == InitBuild /\ [][NextGenerate]_vars

(***************************************************************************)
(* Properties of the server.                                               *)
(***************************************************************************)
\* the wire forms and the keys of the stored messages
Frames(msgs) == { Str(msgs[i]) : i \in 1..Len(msgs) }
Keys(msgs) == { Get(msgs[i].initial_pow) : i \in 1..Len(msgs) }

\* in this step the handler of connection c runs from the return of
\* reader.read() to its next await
Handled(c) == pc[c] = "read" /\ pc'[c] # "read"

\* m passed the verifier and carries the payload p
HasPayload(m, p) == m.payload # None /\ Get(m.payload) = p
\* m passed the verifier and carries one of the four control payloads
IsControl(m) == m.payload # None /\ Get(m.payload) \in ControlPayloads
\* m passed the verifier and carries any other payload
IsOrdinary(m) == m.payload # None /\ Get(m.payload) \notin ControlPayloads

\* C1: at every point where no handler is between its verification and its
\* reply, the wire forms of the stored messages add up to at most max_storage.
C1_MemoryBound == get_storage_used(messages) <= max_storage

\* C2: a handler that answers a verified message that is not control with
\* 'Required pow: 0x...' leaves the set of stored messages as it was before
\* the request.
C2_RejectionKeepsStore ==
    [][\A c \in Conns :
          (/\ Handled(c)
           /\ IsOrdinary(last'.message)
           /\ last'.reply.text = "Required pow: 0x")
          => Frames(messages') = Frames(messages)]_vars

\* C3: the frame of the message that has just been admitted ('ok'), sent
\* again at the same instant, leaves the store with the same keys and the
\* same messages.
C3_IdempotentAdmission ==
    [][\A c \in Conns :
          (/\ Handled(c)
           /\ last.reply.text = "ok"
           /\ last'.data = last.data
           /\ last'.now = last.now)
          => /\ Keys(messages') = Keys(messages)
             /\ Frames(messages') = Frames(messages)]_vars

\* C4: required_pow starts at 2**(4*pow_bytes) - 1, no step lowers it, and it
\* changes only in a step that admits a message m ('ok'), to
\* max(required_pow, m.current_pow).
C4_MonotoneWatermark ==
    /\ required_pow = 2^(4 * pow_bytes) - 1
    /\ [][/\ required_pow' >= required_pow
          /\ required_pow' # required_pow
             => /\ last'.reply.text = "ok"
                /\ IsOrdinary(last'.message)
                /\ required_pow' =
                       Max(required_pow, Get(last'.message.current_pow))]_vars

\* a message has been admitted and required_pow is at least its current_pow
C4_Witness ==
    /\ last.reply.text = "ok"
    /\ Len(messages) > 0
    /\ required_pow >= Get(last.message.current_pow)

C6_OneReply == \A c \in Conns : pc[c] = "done" => replies[c] = 1

\* C9: handling a verified message with a control payload leaves the store
\* and required_pow unchanged, no stored message has a control payload, and a
\* verified message with any other payload gets what the admission rule gives.
C9_ControlNeverStored ==
    [][/\ \A c \in Conns :
             Handled(c) /\ IsControl(last'.message)
             => messages' = messages /\ required_pow' = required_pow
       /\ \A i \in 1..Len(messages') :
             Get(messages'[i].payload) \notin ControlPayloads
       /\ \A c \in Conns :
             Handled(c) /\ IsOrdinary(last'.message)
             => [reply |-> last'.reply, loop |-> last'.loop,
                 messages |-> messages', required_pow |-> required_pow']
                = Admit(last'.message, messages, required_pow, last'.now,
                        max_storage)]_vars

\* '__messages__' has been answered with the two stored messages
C9_Witness ==
    /\ HasPayload(last.message, P_messages)
    /\ Len(last.reply.lines) = 2
    /\ Len(messages) = 2

\* '__exit__' and '__memory__' are honoured with a synthetic clock only, and
\* ignored without a change of state otherwise
Gating ==
    \A c \in Conns :
        Handled(c) =>
            /\ HasPayload(last'.message, P_exit) =>
                  /\ UNCHANGED << messages, required_pow >>
                  /\ IF utc_now # None
                     THEN /\ last'.reply = Reply("Exiting...", 0)
                          /\ pc'[c] = "drain_exit"
                     ELSE /\ last'.reply = Reply("Ignoring __exit__", 0)
                          /\ pc'[c] = "drain"
                          /\ running'
            /\ HasPayload(last'.message, P_memory) =>
                  /\ UNCHANGED << messages, required_pow >>
                  /\ pc'[c] = "drain"
                  /\ running'
                  /\ last'.reply =
                        IF utc_now # None
                        THEN Reply("Total memory used by messages: ",
                                   get_storage_used(messages))
                        ELSE Reply("Ignoring __memory__", 0)

\* the handler that wrote 'Exiting...' ends the process when it ends, and
\* the process ends in no other way
Terminates ==
    /\ \A c \in Conns : pc[c] = "wait_closed_exit" /\ pc'[c] = "done" => ~running'
    /\ ~running' => utc_now # None /\ \E c \in Conns : pc[c] = "wait_closed_exit"

\* 'Exiting...' has been written on some connection
ExitingWritten ==
    \/ ~running
    \/ \E c \in Conns : pc[c] \in {"drain_exit", "wait_closed_exit"}

\* C10 as stated: test-mode gating, and once 'Exiting...' has been written
\* no further connection is handled.
C10_NoneHandledAfterReply ==
    [][/\ Gating
       /\ Terminates
       /\ ExitingWritten => \A c \in Conns : ~Handled(c)]_vars

\* C10: test-mode gating, and once exit(0) has run no further connection
\* is handled (the handler of '__exit__' awaits writer.drain() and
\* writer.wait_closed() between its reply and exit(0)).
C10_NoneHandledAfterExit ==
    [][/\ Gating
       /\ Terminates
       /\ ~running => \A c \in Conns : ~Handled(c) /\ pc'[c] = pc[c]]_vars

\* the process has ended on '__exit__' while another handler was suspended
C10_Witness ==
    /\ ~running
    /\ utc_now # None
    /\ \E c \in Conns : pc[c] \in {"read", "drain", "wait_closed"}

(***************************************************************************)
(* Properties of parse.                                                    *)
(***************************************************************************)
\* the checks of the verifier in their order: 1 length, 2 prefix, 3 suffix,
\* 4 timestamp numeric, 5 timestamp not after now, 6 initial_pow,
\* 7 timestamp a calendar instant, 8 checksum, 9 current_pow
Passes(k, s, rp, now) ==
    CASE k = 1 -> Len(s) >= overhead_bytes
      [] k = 2 -> startswith(s, FramePrefix)
      [] k = 3 -> endswith(s, FrameSuffix)
      [] k = 4 -> IntParses(TimestampOf(s))
      [] k = 5 -> ~StrGreater(TimestampOf(s), strftime(now))
      [] k = 6 -> get_initial_pow(TimestampOf(s), NonceOf(s), ChecksumOf(s),
                                  pow_target) <= rp
      [] k = 7 -> strptime(TimestampOf(s)) # None
      [] k = 8 -> ChecksumOf(s) = get_checksum(PayloadOf(s))
      [] k = 9 -> strptime(TimestampOf(s)) # None
                  => ScaledPow(get_initial_pow(TimestampOf(s), NonceOf(s),
                                               ChecksumOf(s), pow_target),
                               Elapsed(now, Get(strptime(TimestampOf(s)))),
                               Len(s)) <= rp

Failing(s, rp, now) == { k \in 1..9 : ~Passes(k, s, rp, now) }

\* the text of the diagnostic of check k
Diagnostic(k) ==
    CASE k = 1 -> "Message too short: "
      [] k = 2 -> "Wrong format/version"
      [] k = 3 -> "Wrong format/payload"
      [] k = 4 -> "Wrong format/datetime"
      [] k = 5 -> "Datetime in future"
      [] k = 6 -> "Required PoW: 0x"
      [] k = 7 -> "Wrong format/datetime"
      [] k = 8 -> "Wrong checksum"
      [] k = 9 -> "Required PoW: 0x"

Earliest(S) == CHOOSE k \in S : \A j \in S : k <= j

\* C7: the diagnostic parse returns is the one of the earliest check that
\* fails in the fixed order, and '' when none fails.
C7_CheckOrder ==
    call # NoCall =>
        call.reply.text =
            IF Failing(call.s, call.rp, call.now) = {} THEN ""
            ELSE Diagnostic(Earliest(Failing(call.s, call.rp, call.now)))

\* parse has returned the diagnostic of the prefix for a string whose
\* prefix and suffix are both wrong
C7_Witness ==
    /\ call # NoCall
    /\ {2, 3} \subseteq Failing(call.s, call.rp, call.now)
    /\ call.reply.text = "Wrong format/version"

\* C8: a call of parse that returns a diagnostic leaves every field of the
\* object as it was; a call that returns '' assigns the fields.
C8_UntouchedOnFailure ==
    [][/\ call'.reply # NoReply => obj' = obj
       /\ call'.reply = NoReply
          => /\ obj'.timestamp_str = Some(TimestampOf(call'.s))
             /\ obj'.timestamp_obj = strptime(TimestampOf(call'.s))
             /\ obj'.nonce = Some(NonceOf(call'.s))
             /\ obj'.checksum = Some(ChecksumOf(call'.s))
             /\ obj'.payload = Some(PayloadOf(call'.s))
             /\ obj'.initial_pow # None
             /\ obj'.current_pow # None]_vars

\* parse has returned 'Wrong checksum' on an object that an earlier call
\* populated
C8_Witness ==
    /\ call.reply.text = "Wrong checksum"
    /\ obj.payload # None

(***************************************************************************)
(* Properties of the builder, the generator and a verifier of their       *)
(* frames.                                                                 *)
(***************************************************************************)
\* C11: a payload of max_payload_bytes characters is accepted and one of
\* max_payload_bytes + 1 is rejected, by set_payload and by parse alike: a
\* frame that parse accepts is of at most max_message_bytes characters.
C11_PayloadBound ==
    /\ gen.op = "set_payload"
       => (gen.raised = "Payload too large" <=> Len(gen.arg) > max_payload_bytes)
    /\ gen.op = "parse" /\ gen.reply = NoReply
       => /\ Len(Get(gen.parsed.payload)) <= max_payload_bytes
          /\ Len(gen.arg) <= max_message_bytes

\* the latest call computed initial_pow from the attributes the object has
FreshPow ==
    /\ gen.op \in {"set_payload", "update_nonce", "generate"}
    /\ gen.raised = ""

\* int(hexdigest()[0:pow_bytes], 16) of the object's timestamp_str, nonce and
\* checksum
Prefix(m) ==
    HexToInt(HexDigest(Utf8Encode(Get(m.timestamp_str))
                       \o Utf8Encode(Get(m.nonce))
                       \o Utf8Encode(Get(m.checksum)), pow_bytes), pow_bytes)

\* C13 as stated: pow_target is the midpoint 2^(4*pow_bytes - 1) - 1 of the
\* range of the prefix, and no initial_pow exceeds 2^(4*pow_bytes - 1).
C13_MidpointTarget ==
    /\ pow_target = 2^(4 * pow_bytes - 1) - 1
    /\ FreshPow => Get(gen.self.initial_pow) <= 2^(4 * pow_bytes - 1)

\* C13: pow_target is the top 2^(4*pow_bytes) - 1 of the range of the
\* prefix H, the initial_pow of a message is pow_target - H, and it lies in
\* 0..2^(4*pow_bytes) - 1.
C13_TopTarget ==
    /\ pow_target = 2^(4 * pow_bytes) - 1
    /\ FreshPow
       => /\ Get(gen.self.initial_pow) = pow_target - Prefix(gen.self)
          /\ Get(gen.self.initial_pow) >= 0
          /\ Get(gen.self.initial_pow) <= 2^(4 * pow_bytes) - 1
    /\ gen.op = "parse" /\ gen.reply = NoReply
       => Get(gen.parsed.initial_pow) = pow_target - Prefix(gen.parsed)

\* set_payload has computed an initial_pow above the middle of the range
C13_Witness ==
    /\ gen.op = "set_payload"
    /\ gen.raised = ""
    /\ Get(gen.self.initial_pow) > 2^(4 * pow_bytes - 1)

\* one iteration of the generator's loop has printed a message
Generated ==
    /\ gen.op = "generate"
    /\ gen.raised = ""

\* the current_pow of the generator's message once its age is the duration D
\* it was mined for
PowAtDuration ==
    ScaledPow(Get(gen.self.initial_pow), gen.D * TicksPerSecond,
              Len(Str(gen.self)))

\* C14 as stated: a message the generator mined for --pow W and --duration D
\* has, at the age of D seconds, a current_pow of at most W, whatever the
\* length of its frame.
C14_Compensated == Generated => PowAtDuration <= gen.W

\* C14: the message has an initial_pow below int(W / (max(D, 10) / 10)); at
\* the age of D seconds its current_pow is at most W for a frame of at most
\* min_message_bytes characters, and what it would be for such a frame is at
\* most W for every frame: the size of the frame is not compensated.
C14_AgeCompensated ==
    Generated
    => /\ Get(gen.self.initial_pow) < Threshold(gen.W, gen.D)
       /\ gen.rp = Threshold(gen.W, gen.D)
       /\ ScaledPow(Get(gen.self.initial_pow), gen.D * TicksPerSecond,
                    min_message_bytes) <= gen.W
       /\ Len(Str(gen.self)) <= min_message_bytes => PowAtDuration <= gen.W

\* the generator has printed a frame longer than min_message_bytes whose
\* current_pow at the age of D seconds, 20, is above W
C14_Witness ==
    /\ Generated
    /\ gen.D > min_message_age
    /\ Len(Str(gen.self)) > min_message_bytes
    /\ PowAtDuration > gen.W

\* update_nonce was the latest call, on an object with a timestamp and a
\* payload
Searched ==
    /\ gen.op = "update_nonce"
    /\ gen.self.timestamp_str # None
    /\ gen.self.checksum # None

\* the threshold the search ran with
SearchPow == IF gen.rp < 0 THEN 2^(4 * pow_bytes) - 1 ELSE gen.rp

\* the initial_pow of the candidate of index n for the generator's message
CandidatePow(n) ==
    Abs(pow_target
        - Prefix([gen.self EXCEPT !.nonce = Some(Candidate(n, nonce_bytes))]))

ParsedBack ==
    /\ gen.op = "parse"
    /\ gen.built
    /\ gen.arg = Str(gen.self)
    /\ Elapsed(gen.now, Get(gen.self.timestamp_obj)) >= 0

\* C16: parse of the printed form of a built message, with the threshold
\* 2^(4*pow_bytes) - 1 at an instant now not before its timestamp, returns ''
\* and gives the verifying object the timestamp_str, nonce, checksum, payload
\* and initial_pow of the message and the current_pow that update_pow(now)
\* gives the message.
C16_RoundTrip ==
    ParsedBack
    => /\ gen.reply = NoReply
       /\ gen.parsed.timestamp_str = gen.self.timestamp_str
       /\ gen.parsed.nonce = gen.self.nonce
       /\ gen.parsed.checksum = gen.self.checksum
       /\ gen.parsed.payload = gen.self.payload
       /\ gen.parsed.initial_pow = gen.self.initial_pow
       /\ gen.parsed.current_pow = update_pow(gen.self, gen.now).current_pow

(***************************************************************************)
(* Properties of the server that rest on the verifier and on the store.    *)
(***************************************************************************)
\* the text of the latest request, where its bytes decode
LastFrame == Utf8Decode(last.data).s

\* the latest request carried a frame that passes every check of the
\* verifier other than the comparison of its timestamp with the clock
OtherwiseValid ==
    /\ last.conn # 0
    /\ WellFormed(last.data)
    /\ Failing(LastFrame, 2^(4 * pow_bytes) - 1, last.now) \subseteq {5}

\* C12: a frame that is valid otherwise is accepted by the verifier when its
\* timestamp is the server's now and answered with 'Datetime in future' when
\* its timestamp is a second or more after it; no stored message has a
\* timestamp after the server's now.
C12_NoFutureTimestamp ==
    /\ \A i \in 1..Len(messages) :
          Elapsed(NowOf(utc_now, clock), Get(messages[i].timestamp_obj)) >= 0
    /\ OtherwiseValid
       => /\ TimestampOf(LastFrame) = strftime(last.now)
             => last.message.timestamp_str = Some(strftime(last.now))
          /\ Elapsed(Get(strptime(TimestampOf(LastFrame))), last.now)
                >= TicksPerSecond
             => last.reply.text = "Datetime in future"

\* a frame, valid otherwise, with a timestamp a second after the server's
\* now has been answered, and a message is stored
C12_Witness ==
    /\ OtherwiseValid
    /\ Elapsed(Get(strptime(TimestampOf(LastFrame))), last.now)
          = TicksPerSecond
    /\ last.reply.text = "Datetime in future"
    /\ Len(messages) > 0

\* the current_pow of the message m at the server's now
PowNow(m) ==
    ScaledPow(Get(m.initial_pow),
              Elapsed(NowOf(utc_now, clock), Get(m.timestamp_obj)), Len(Str(m)))

\* what get_worst_pow() gives on the store at the server's now
WorstNow == get_worst_pow(messages, NowOf(utc_now, clock))

\* C17: on a store that is not empty get_worst_pow leaves every message
\* with its current_pow at now and returns the initial_pow and current_pow of
\* a stored message whose current_pow is the largest, the first of them in
\* the order of the store.
C17_WorstResident ==
    Len(messages) > 0
    => /\ WorstNow.messages =
             [i \in 1..Len(messages) |->
                 [messages[i] EXCEPT !.current_pow = Some(PowNow(messages[i]))]]
       /\ \E i \in 1..Len(messages) :
             /\ WorstNow.worst = << Get(messages[i].initial_pow), PowNow(messages[i]) >>
             /\ \A j \in 1..Len(messages) : PowNow(messages[j]) <= PowNow(messages[i])
             /\ \A j \in 1..(i - 1) : PowNow(messages[j]) < PowNow(messages[i])

\* two stored messages share the largest current_pow at the server's now
C17_Witness ==
    \E i, j \in 1..Len(messages) :
        /\ i < j
        /\ PowNow(messages[i]) = PowNow(messages[j])
        /\ \A k \in 1..Len(messages) : PowNow(messages[k]) <= PowNow(messages[i])

\* C18: whenever a stored message leaves the store, evicted by the loop or
\* replaced under its key by the insertion, the incoming message has a
\* current_pow of at most the current_pow of the message that left, both
\* taken at the server's now.
C18_StrongerReplaces ==
    [][\A i \in 1..Len(messages) :
          Str(messages[i]) \notin Frames(messages')
          => Get(last'.message.current_pow) <= PowNow(messages[i])]_vars

\* C19: required_pow is 2^(4*pow_bytes) - 1 in every reachable state; the
\* verifier answers no request of the server with 'Required PoW: 0x...', and
\* '__info__' is answered with that value.
C19_ConstantThreshold ==
    /\ required_pow = 2^(4 * pow_bytes) - 1
    /\ last.reply.text # "Required PoW: 0x"
    /\ HasPayload(last.message, P_info)
       => last.reply = Reply("Required pow: 0x", 2^(4 * pow_bytes) - 1)

\* '__info__' has been answered while a message whose current_pow is at the
\* cap is stored
C19_Witness ==
    /\ HasPayload(last.message, P_info)
    /\ last.reply.text = "Required pow: 0x"
    /\ \E i \in 1..Len(messages) :
          messages[i].current_pow = Some(2^(4 * pow_bytes) - 1)

\* C20: every iteration of the while loop returns the rejection or removes
\* one stored message (the key get_worst_pow returns is in the store), so a
\* handler leaves the loop after at most as many iterations as the store
\* held messages: the rejection follows one pop less than the iterations,
\* the insertion as many pops, and no handler stays in the loop.
C20_LoopEnds ==
    [][last' # last
       => /\ ~last'.loop.hangs
          /\ \A c \in Conns : pc'[c] # "loop"
          /\ last'.loop.iterations <= Len(messages)
          /\ IsOrdinary(last'.message) /\ last'.reply.text = "Required pow: 0x"
             => /\ last'.loop.iterations >= 1
                /\ Len(messages') = Len(messages) - (last'.loop.iterations - 1)
          /\ last'.reply.text = "ok"
             => Len(Pop(messages', Get(last'.message.initial_pow)))
                  \in { Len(Pop(messages, Get(last'.message.initial_pow)))
                           - last'.loop.iterations,
                        Len(messages) - last'.loop.iterations }]_vars

\* a handler has left the loop after one iteration in which get_worst_pow
\* returned (0, 0) and the pop removed the stored message, and has stored
\* its own
C20_Witness ==
    /\ last.loop.iterations = 1
    /\ last.loop.worst = << 0, 0 >>
    /\ last.reply.text = "ok"
    /\ Len(messages) = 1

=============================================================================
